---- MODULE Spec2Model ----
(***************************************************************************)
(* Credential lifecycle of the quiz backend (src/index.js): registration,  *)
(* login with the failed-attempt counter, password change with history,    *)
(* and the bearer-token guard.  Every request handler is split at its     *)
(* awaits on the store, so that requests interleave the way the event      *)
(* loop lets them.  The creation of a question is modelled for its role      *)
(* check; account deletion and the other question and score routes are    *)
(* outside this subsystem.                                                 *)
(***************************************************************************)
EXTENDS Integers, Sequences, FiniteSets, TLC

(* ------------------------------------------------------------------ *)
(* Bounds of the model                                                 *)
(* ------------------------------------------------------------------ *)
MaxTicks == 1
MaxHist == 2
MaxDocs == 2
MaxQuestions == 1

(* ------------------------------------------------------------------ *)
(* Program constants                                                   *)
(* ------------------------------------------------------------------ *)
\* const lockoutTime = 1 * 60 * 1000 (milliseconds)
lockoutTime == 60000
\* user.failedLoginAttempts >= 3
LockThreshold == 3
\* jwt.sign(..., { expiresIn: '1h' }) (seconds)
expiresIn == 3600
\* password.length < 8 || password.length > 12
MinLen == 8
MaxLen == 12

\* The concurrent requests in flight, the clock steps and the inputs.
Reqs == {1, 2}
\* The clock steps: an hour (a token's life) and, for the lockout window,
\* half a minute
Hour == expiresIn * 1000
HalfMinute == lockoutTime \div 2

\* The inputs: one identity, two conforming passwords and one that breaks
\* four rules; the empty string stands for a missing (falsy) field
Bob == "bob"
Usernames == {Bob}
Missing == ""
PwA == "Abcdef1!"
PwB == "Qwerty2?"
PwWeak == "abc"
Passwords == {PwA, PwB, PwWeak}

\* A second identity, and the candidates given to validatePassword alone: at
\* the ends of the length range and outside it, each missing one character
\* class, with a character outside the special set, holding an identity in
\* another case, and of digits only
Al == "al"
PwShort == "Ab1!xyz"
PwTwelve == "Abcdefgh1!xy"
PwLong == "Abcdefgh1!xyz"
PwNoDigit == "Abcdefg!"
PwNoUpper == "abcdef1!"
PwNoLower == "ABCDEF1!"
PwNoSpecial == "Abcdef12"
PwHyphen == "Abcdef1-"
PwHasBob == "xyBOb12!z"
PwHasAl == "ALpha12!x"
PwDigits == "1234567"
Candidates ==
  Passwords \cup {PwShort, PwTwelve, PwLong, PwNoDigit, PwNoUpper, PwNoLower,
                  PwNoSpecial, PwHyphen, PwHasBob, PwHasAl, PwDigits}

\* The characters of the strings above
chars(s) ==
  CASE s = Bob -> <<"b", "o", "b">>
    [] s = PwA -> <<"A", "b", "c", "d", "e", "f", "1", "!">>
    [] s = PwB -> <<"Q", "w", "e", "r", "t", "y", "2", "?">>
    [] s = PwWeak -> <<"a", "b", "c">>
    [] s = Al -> <<"a", "l">>
    [] s = PwShort -> <<"A", "b", "1", "!", "x", "y", "z">>
    [] s = PwTwelve -> <<"A", "b", "c", "d", "e", "f", "g", "h", "1", "!", "x", "y">>
    [] s = PwLong -> <<"A", "b", "c", "d", "e", "f", "g", "h", "1", "!", "x", "y", "z">>
    [] s = PwNoDigit -> <<"A", "b", "c", "d", "e", "f", "g", "!">>
    [] s = PwNoUpper -> <<"a", "b", "c", "d", "e", "f", "1", "!">>
    [] s = PwNoLower -> <<"A", "B", "C", "D", "E", "F", "1", "!">>
    [] s = PwNoSpecial -> <<"A", "b", "c", "d", "e", "f", "1", "2">>
    [] s = PwHyphen -> <<"A", "b", "c", "d", "e", "f", "1", "-">>
    [] s = PwHasBob -> <<"x", "y", "B", "O", "b", "1", "2", "!", "z">>
    [] s = PwHasAl -> <<"A", "L", "p", "h", "a", "1", "2", "!", "x">>
    [] s = PwDigits -> <<"1", "2", "3", "4", "5", "6", "7">>
    [] OTHER -> <<>>

(* ------------------------------------------------------------------ *)
(* Characters: the classes the policy's regular expressions test       *)
(* ------------------------------------------------------------------ *)
UpperSeq == <<"A","B","C","D","E","F","G","H","I","J","K","L","M",
              "N","O","P","Q","R","S","T","U","V","W","X","Y","Z">>
LowerSeq == <<"a","b","c","d","e","f","g","h","i","j","k","l","m",
              "n","o","p","q","r","s","t","u","v","w","x","y","z">>
Digits == {"0","1","2","3","4","5","6","7","8","9"}
Specials == {"!","@","#","$","%","^","&","*","(",")",",",".","?","\"",":","{","}","|","<",">"}
Range(s) == {s[i] : i \in 1..Len(s)}
Upper == Range(UpperSeq)
Lower == Range(LowerSeq)

\* String.prototype.toLowerCase, one character and a whole string
LowerChar(c) ==
  IF c \in Upper THEN LowerSeq[CHOOSE i \in 1..Len(UpperSeq) : UpperSeq[i] = c] ELSE c
toLowerCase(s) == [i \in 1..Len(s) |-> LowerChar(s[i])]

\* String.prototype.includes
includes(s, t) ==
  \E i \in 1..(Len(s) - Len(t) + 1) : SubSeq(s, i, i + Len(t) - 1) = t

\* RegExp.prototype.test for a character class
test(class, s) == \E i \in 1..Len(s) : s[i] \in class

(* ------------------------------------------------------------------ *)
(* bcrypt: a salted one-way digest and its comparison                   *)
(* ------------------------------------------------------------------ *)
hash(password, salt) == [plain |-> password, salt |-> salt]
\* A comparison that is not awaited: the pending promise is truthy
compare_NotAwaited(password, digest) == TRUE

compare(password, digest) == digest.plain = password

(* ------------------------------------------------------------------ *)
(* validatePassword: all seven rules are evaluated, in order            *)
(* ------------------------------------------------------------------ *)
ErrLength == "Password must be 8-12 characters long."
ErrNumber == "Password must contain at least one number."
ErrUpper == "Password must contain at least one uppercase letter."
ErrLower == "Password must contain at least one lowercase letter."
ErrSpecial == "Password must contain at least one special character."
ErrUsername == "Password must not contain the username."
ErrReused == "Password must not have been used before."

\* errors.push(msg) under its if
pushIf(errors, cond, msg) == IF cond THEN Append(errors, msg) ELSE errors

\* The candidate is hashed again and looked up in the list: a new salt, so no
\* stored hash is ever equal to it
usedBefore_Rehashed(password, previousPasswords) ==
  \E i \in 1..Len(previousPasswords) : previousPasswords[i] = hash(password, 0)

\* previousPasswords.some((hash) => bcrypt.compareSync(password, hash))
usedBefore(password, previousPasswords) ==
  \E i \in 1..Len(previousPasswords) : compare(password, previousPasswords[i])

\* A validation that returns at the first rule broken
validatePassword_FirstOnly(password, username, previousPasswords) ==
  LET pw == chars(password) IN
  IF Len(pw) < MinLen \/ Len(pw) > MaxLen THEN <<ErrLength>>
  ELSE IF ~test(Digits, pw) THEN <<ErrNumber>>
  ELSE IF ~test(Upper, pw) THEN <<ErrUpper>>
  ELSE IF ~test(Lower, pw) THEN <<ErrLower>>
  ELSE IF ~test(Specials, pw) THEN <<ErrSpecial>>
  ELSE IF includes(toLowerCase(pw), toLowerCase(chars(username))) THEN <<ErrUsername>>
  ELSE IF usedBefore(password, previousPasswords) THEN <<ErrReused>>
  ELSE <<>>

validatePassword(password, username, previousPasswords) ==
  LET pw == chars(password)
      e1 == pushIf(<<>>, Len(pw) < MinLen \/ Len(pw) > MaxLen, ErrLength)
      e2 == pushIf(e1, ~test(Digits, pw), ErrNumber)
      e3 == pushIf(e2, ~test(Upper, pw), ErrUpper)
      e4 == pushIf(e3, ~test(Lower, pw), ErrLower)
      e5 == pushIf(e4, ~test(Specials, pw), ErrSpecial)
      e6 == pushIf(e5, includes(toLowerCase(pw), toLowerCase(chars(username))), ErrUsername)
      e7 == pushIf(e6, usedBefore(password, previousPasswords), ErrReused)
  IN e7

(* ------------------------------------------------------------------ *)
(* userSchema documents and the mongoose document a handler holds       *)
(* ------------------------------------------------------------------ *)
\* lastFailedLogin: null (a Date is its millisecond value)
Null == -1
NoHash == hash(Missing, 0)

\* A schema whose lastFailedLogin defaults to a date instead of null
NewUser_DatedDefault(id, username, password) ==
  [id |-> id, username |-> username, password |-> password,
   historyPasswords |-> <<>>, failedLoginAttempts |-> 0, lastFailedLogin |-> 0]

\* new User({ username, password }) with the schema's defaults
NewUser(id, username, password) ==
  [id |-> id, username |-> username, password |-> password,
   historyPasswords |-> <<>>, failedLoginAttempts |-> 0, lastFailedLogin |-> Null]

\* findOne found nothing
NoUser == NewUser(0, Missing, NoHash)

\* A loaded document: its values, the paths set since loading and the
\* elements pushed onto historyPasswords since loading.
Loaded(doc) == [doc |-> doc, dirty |-> {}, pushed |-> <<>>]

\* doc.path = val: the path is marked modified only if the value changes
assign(m, path, val) ==
  IF m.doc[path] = val THEN m
  ELSE [m EXCEPT !.doc[path] = val, !.dirty = @ \cup {path}]

\* doc.historyPasswords.push(val)
push(m, val) ==
  [m EXCEPT !.doc.historyPasswords = Append(@, val), !.pushed = Append(@, val)]

\* new Date(d).getTime(): new Date(null) is the epoch
getTime(d) == IF d = Null THEN 0 ELSE d

\* The update save() sends for a loaded document: $set of the modified
\* paths and $push of the pushed elements, applied to the stored document.
applyDelta(stored, m) ==
  [f \in DOMAIN stored |->
     IF f \in m.dirty THEN m.doc[f]
     ELSE IF f = "historyPasswords" THEN stored[f] \o m.pushed
     ELSE stored[f]]

(* ------------------------------------------------------------------ *)
(* Bearer tokens                                                       *)
(* ------------------------------------------------------------------ *)
\* Math.floor(Date.now() / 1000)
seconds(ms) == ms \div 1000

\* jwt.sign({ username }, jwtSecret, { expiresIn: '1h' })
sign(username, t) == [username |-> username, exp |-> seconds(t) + expiresIn, sig |-> "ok"]
NoToken == [username |-> Missing, exp |-> 0, sig |-> "none"]

\* A verification that ignores the expiry
verifyFails_IgnoreExpiration(token, t) == token.sig # "ok"

\* jwt.verify(token, jwtSecret, cb): err for a bad signature or an expired token
verifyFails(token, t) == token.sig # "ok" \/ seconds(t) >= token.exp

\* The Authorization header: absent, or its space-separated parts
NoHeader == [present |-> FALSE, parts |-> 0, token |-> NoToken]
SchemeOnly == [present |-> TRUE, parts |-> 1, token |-> NoToken]
Bearer(token) == [present |-> TRUE, parts |-> 2, token |-> token]

\* authHeader && authHeader.split(' ')[1]
headerToken(h) == IF h.present /\ h.parts >= 2 THEN h.token ELSE NoToken

\* authenticateToken: 0 when next() is called, else the status sent
authenticateToken(h, t) ==
  IF headerToken(h) = NoToken THEN 401
  ELSE IF verifyFails(headerToken(h), t) THEN 403
  ELSE 0

(* ------------------------------------------------------------------ *)
(* State                                                               *)
(* ------------------------------------------------------------------ *)
VARIABLES
  now,        \* Date.now(), milliseconds
  ticks,      \* clock advances so far
  users,      \* the User collection: a set of documents
  nextId,     \* the next _id
  nextSalt,   \* the salt bcrypt draws next: no two digests share a salt
  req,        \* per request in flight: the handler's position and locals
  res,        \* the response sent last
  held,       \* the bearer token the client keeps from its logins
  observing,  \* whether the logins' outcomes are being counted (never changes)
  failStreak, \* per identity: consecutive wrong-password logins answered
  lastFail,   \* per identity: when the last of them was answered
  questions,  \* the Question collection: a set of documents
  checked     \* the last call of validatePassword: its arguments and its result

vars ==
  <<now, ticks, users, nextId, nextSalt, req, res, held, observing, failStreak, lastFail,
    questions, checked>>

\* A request slot with no handler running
Idle ==
  [route |-> "none", pc |-> "idle", username |-> Missing, password |-> Missing,
   m |-> Loaded(NoUser), armed |-> FALSE]

\* A handler suspended at an await
Awaiting(route, pc, username, password, m, armed) ==
  [route |-> route, pc |-> pc, username |-> username, password |-> password,
   m |-> m, armed |-> armed]

\* res.status(status).send(...): the response of a handler.  armed tells
\* whether the request arrived within lockoutTime of a third consecutive
\* failed login of its identity.
Sent(route, armed, status, error, token) ==
  [route |-> route, armed |-> armed, status |-> status, error |-> error, token |-> token]

\* A handler may start in a slot when the slots before it are busy
free(r) == req[r].pc = "idle" /\ \A q \in Reqs : q < r => req[q].pc # "idle"

\* User.findOne({ username }): the first matching document, or null
findOne(coll, username) ==
  IF \E d \in coll : d.username = username
  THEN CHOOSE d \in coll : /\ d.username = username
                           /\ \A e \in coll : e.username = username => d.id <= e.id
  ELSE NoUser

\* A schema without the unique index
duplicateKey_NoIndex(coll, doc) == FALSE

\* username: { unique: true }: the insert is refused with a duplicate key error
duplicateKey(coll, doc) == \E d \in coll : d.username = doc.username

\* The collection after save() of a loaded document
saved(coll, m) ==
  {IF d.id = m.doc.id THEN applyDelta(d, m) ELSE d : d \in coll}

\* validatePassword has not been called
NoCall == [password |-> Missing, username |-> Missing, previousPasswords |-> <<>>, errors |-> <<>>]

Start ==
  /\ now = 0
  /\ ticks = 0
  /\ users = {}
  /\ nextId = 1
  /\ nextSalt = 1
  /\ req = [r \in Reqs |-> Idle]
  /\ res = Sent("none", FALSE, 0, <<>>, NoToken)
  /\ held = NoToken
  /\ failStreak = [u \in Usernames |-> 0]
  /\ lastFail = [u \in Usernames |-> Null]
  /\ questions = {}
  /\ checked = NoCall

Init == Start /\ observing = FALSE

(* ------------------------------------------------------------------ *)
(* The clock                                                           *)
(* ------------------------------------------------------------------ *)
Tick(d) ==
  /\ ticks < MaxTicks
  /\ now' = now + d
  /\ ticks' = ticks + 1
  /\ UNCHANGED <<users, nextId, nextSalt, req, res, held, observing, failStreak, lastFail, questions, checked>>

(* ------------------------------------------------------------------ *)
(* POST /api/users/register                                            *)
(* ------------------------------------------------------------------ *)
\* The response of lines 121-137, or 0 when the handler goes on to hash
registerCheck(coll, username, password) ==
  IF username = Missing \/ password = Missing
  THEN <<400, <<"Username and password are required">> >>
  ELSE IF findOne(coll, username) # NoUser THEN <<400, <<"User already exists">> >>
  ELSE LET passwordErrors == validatePassword(password, username, <<>>) IN
       IF Len(passwordErrors) > 0 THEN <<400, passwordErrors>> ELSE <<0, <<>> >>

\* Lines 121-137: the inputs, the existence check and the policy
RegisterFind(r, username, password) ==
  /\ free(r)
  /\ nextId <= MaxDocs
  /\ LET c == registerCheck(users, username, password) IN
     IF c[1] # 0
     THEN /\ res' = Sent("register", FALSE, c[1], c[2], NoToken)
          /\ req' = req
     ELSE /\ req' = [req EXCEPT ![r] =
                       Awaiting("register", "reg_save", username, password, Loaded(NoUser), FALSE)]
          /\ res' = res
  /\ UNCHANGED <<now, ticks, users, nextId, nextSalt, held, observing, failStreak, lastFail, questions, checked>>

\* Lines 140-149: hash, new User, save; a refused insert is caught
RegisterSave(r) ==
  /\ req[r].route = "register" /\ req[r].pc = "reg_save"
  /\ nextSalt' = nextSalt + 1
  /\ LET newUser == NewUser(nextId, req[r].username, hash(req[r].password, nextSalt)) IN
     IF duplicateKey(users, newUser)
     THEN /\ res' = Sent("register", FALSE, 400, <<"Error registering user">>, NoToken)
          /\ UNCHANGED <<users, nextId>>
     ELSE /\ users' = users \cup {newUser}
          /\ nextId' = nextId + 1
          /\ res' = Sent("register", FALSE, 201, <<>>, NoToken)
  /\ req' = [req EXCEPT ![r] = Idle]
  /\ UNCHANGED <<now, ticks, held, observing, failStreak, lastFail, questions, checked>>

(* ------------------------------------------------------------------ *)
(* POST /api/users/login                                               *)
(* ------------------------------------------------------------------ *)
\* A reset that counts the login instead
resetAttempts_Counting(m) ==
  assign(assign(m, "failedLoginAttempts", m.doc.failedLoginAttempts + 1), "lastFailedLogin", now)

\* A reset that stamps the time of the login instead of clearing it
resetAttempts_Stamped(m) ==
  assign(assign(m, "failedLoginAttempts", 0), "lastFailedLogin", now)

\* user.failedLoginAttempts = 0; user.lastFailedLogin = null
resetAttempts(m) ==
  assign(assign(m, "failedLoginAttempts", 0), "lastFailedLogin", Null)

\* user.failedLoginAttempts += 1; user.lastFailedLogin = Date.now()
countFailure(m, t) ==
  assign(assign(m, "failedLoginAttempts", m.doc.failedLoginAttempts + 1), "lastFailedLogin", t)

\* failedLoginAttempts >= 3 and the last failure less than lockoutTime ago
locked(doc, t) ==
  /\ doc.failedLoginAttempts >= LockThreshold
  /\ t - getTime(doc.lastFailedLogin) < lockoutTime

\* !user || !(await bcrypt.compare(password, user.password))
invalidCredentials(doc, password) ==
  doc = NoUser \/ ~compare(password, doc.password)

\* A wrong-password login for an existing identity was answered
failureSeen(u) ==
  IF observing
  THEN /\ failStreak' = [failStreak EXCEPT ![u] = IF @ < LockThreshold THEN @ + 1 ELSE @]
       /\ lastFail' = [lastFail EXCEPT ![u] = now]
  ELSE UNCHANGED <<failStreak, lastFail>>

\* A login for the identity was answered with a token, or the account deleted
streakEnds(u) ==
  IF observing
  THEN /\ failStreak' = [failStreak EXCEPT ![u] = 0]
       /\ lastFail' = [lastFail EXCEPT ![u] = Null]
  ELSE UNCHANGED <<failStreak, lastFail>>

\* Whether a login arriving now for the identity comes within lockoutTime of
\* a third consecutive failure
armedAt(u, t) ==
  /\ observing
  /\ failStreak[u] >= LockThreshold
  /\ t - getTime(lastFail[u]) < lockoutTime

\* The response of lines 161-187, or 0 when the handler goes on to the
\* password check
loginCheck(doc, t, username, password) ==
  IF username = Missing \/ password = Missing
  THEN <<400, <<"Username and password are required">> >>
  ELSE IF invalidCredentials(doc, password) THEN <<401, <<"Invalid credentials">> >>
  ELSE IF locked(doc, t) THEN <<403, <<"Too many failed login attempts">> >>
  ELSE <<0, <<>> >>

\* Lines 161-187: the inputs, the read of the account, the credentials check
\* and the lockout check (the awaited compare of line 169 touches nothing
\* shared, so the step is taken at the read)
LoginFind(r, username, password) ==
  /\ free(r)
  /\ LET doc == findOne(users, username)
         c == loginCheck(doc, now, username, password)
         armed == username # Missing /\ armedAt(username, now)
     IN
     IF c[1] # 0
     THEN /\ res' = Sent("login", armed, c[1], c[2], NoToken)
          /\ req' = req
          /\ IF c[1] = 401 /\ doc # NoUser THEN failureSeen(username)
             ELSE UNCHANGED <<failStreak, lastFail>>
     ELSE /\ req' = [req EXCEPT ![r] =
                       Awaiting("login", "login_verify", username, password,
                                IF doc.failedLoginAttempts >= LockThreshold
                                THEN resetAttempts(Loaded(doc)) ELSE Loaded(doc),
                                armed)]
          /\ UNCHANGED <<res, failStreak, lastFail>>
  /\ UNCHANGED <<now, ticks, users, nextId, nextSalt, held, observing, questions, checked>>

\* Lines 190-210: the password check, the counter update and its save, the token
LoginVerify(r) ==
  /\ req[r].route = "login" /\ req[r].pc = "login_verify"
  /\ LET q == req[r]
         isPasswordCorrect == compare(q.password, q.m.doc.password)
         m2 == IF isPasswordCorrect THEN resetAttempts(q.m) ELSE countFailure(q.m, now)
     IN
     /\ users' = saved(users, m2)
     /\ IF isPasswordCorrect
        THEN /\ res' = Sent("login", q.armed, 200, <<>>, sign(q.m.doc.username, now))
             /\ held' \in {held, sign(q.m.doc.username, now)}
             /\ streakEnds(q.username)
        ELSE /\ res' = Sent("login", q.armed, 401, <<"Invalid credentials">>, NoToken)
             /\ held' = held
             /\ failureSeen(q.username)
  /\ req' = [req EXCEPT ![r] = Idle]
  /\ UNCHANGED <<now, ticks, nextId, nextSalt, observing, questions, checked>>

(* ------------------------------------------------------------------ *)
(* Routes behind authenticateToken                                     *)
(* ------------------------------------------------------------------ *)
\* A token nobody signed with jwtSecret
forged(username, t) == [sign(username, t) EXCEPT !.sig = "bad"]

\* The Authorization headers a client can send
Headers ==
  {NoHeader, SchemeOnly, Bearer(held)}
    \cup {Bearer(forged(u, now)) : u \in Usernames}

\* GET /api/users/:username
GetUser(h, username) ==
  /\ res' = IF authenticateToken(h, now) # 0
            THEN Sent("get", FALSE, authenticateToken(h, now), <<>>, NoToken)
            ELSE IF findOne(users, username) = NoUser
            THEN Sent("get", FALSE, 404, <<"User not found">>, NoToken)
            ELSE Sent("get", FALSE, 200, <<>>, NoToken)
  /\ UNCHANGED <<now, ticks, users, nextId, nextSalt, req, held, observing, failStreak, lastFail, questions, checked>>

\* The response of lines 229-242 of the password change, or 0 when the
\* handler goes on to hash and save
patchCheck(h, t, doc, username, password) ==
  IF authenticateToken(h, t) # 0 THEN <<authenticateToken(h, t), <<>> >>
  ELSE IF doc = NoUser THEN <<404, <<"User not found.">> >>
  ELSE IF password = Missing THEN <<200, <<>> >>
  ELSE LET passwordErrors == validatePassword(password, username, doc.historyPasswords) IN
       IF Len(passwordErrors) > 0 THEN <<400, passwordErrors>> ELSE <<0, <<>> >>

\* PATCH /api/users/:username, lines 228-242: the guard, the read, the policy
PatchFind(r, h, username, password) ==
  /\ free(r)
  /\ LET doc == findOne(users, username)
         c == patchCheck(h, now, doc, username, password)
     IN
     IF c[1] # 0
     THEN /\ res' = Sent("patch", FALSE, c[1], c[2], NoToken)
          /\ req' = req
     ELSE /\ Len(doc.historyPasswords) < MaxHist
          /\ req' = [req EXCEPT ![r] =
                       Awaiting("patch", "patch_save", username, password, Loaded(doc), FALSE)]
          /\ res' = res
  /\ UNCHANGED <<now, ticks, users, nextId, nextSalt, held, observing, failStreak, lastFail, questions, checked>>

\* A change that also stamps the time of the last failure
rotate_Stamped(m, hashedPassword) ==
  assign(assign(push(m, m.doc.password), "password", hashedPassword), "lastFailedLogin", now)

\* historyPasswords.push(user.password); user.password = hashedPassword
rotate(m, hashedPassword) ==
  assign(push(m, m.doc.password), "password", hashedPassword)

\* PATCH /api/users/:username, lines 244-252: hash, rotate, save
PatchSave(r) ==
  /\ req[r].route = "patch" /\ req[r].pc = "patch_save"
  /\ nextSalt' = nextSalt + 1
  /\ users' = saved(users, rotate(req[r].m, hash(req[r].password, nextSalt)))
  /\ res' = Sent("patch", FALSE, 200, <<>>, NoToken)
  /\ req' = [req EXCEPT ![r] = Idle]
  /\ UNCHANGED <<now, ticks, nextId, held, observing, failStreak, lastFail, questions, checked>>

(* ------------------------------------------------------------------ *)
(* Routes behind checkAdminRole                                        *)
(* ------------------------------------------------------------------ *)
\* A payload with a role claim under a good signature: the program signs no
\* such token, whoever holds jwtSecret can
Roles == {"admin", "user"}
signedWithRole(username, r, t) ==
  [username |-> username, exp |-> seconds(t) + expiresIn, sig |-> "ok", role |-> r]

\* req.user.role: undefined when the payload has no role claim
role(user) == IF "role" \in DOMAIN user THEN user.role ELSE Missing

\* A check that refuses the one role it knows instead of requiring admin
checkAdminRole_DenyList(user) == IF role(user) = "user" THEN 403 ELSE 0

\* checkAdminRole: 0 when next() is called, else the status sent
checkAdminRole(user) == IF role(user) # "admin" THEN 403 ELSE 0

\* The Authorization headers sent to the privileged route: those above, the
\* role-bearing tokens issued at time 0 and a forged admin token
AdminHeaders ==
  Headers
    \cup {Bearer(signedWithRole(u, r, 0)) : u \in Usernames, r \in Roles}
    \cup {Bearer([signedWithRole(u, "admin", now) EXCEPT !.sig = "bad"]) : u \in Usernames}

\* The question field of the body: questionSchema requires it
Questions == {"q1", Missing}

\* POST /api/questions: the guard, the role check, the save.  A missing
\* required field makes save() throw, which the handler answers with 500.
PostQuestion(h, question) ==
  /\ IF authenticateToken(h, now) # 0
     THEN /\ res' = Sent("question", FALSE, authenticateToken(h, now), <<>>, NoToken)
          /\ questions' = questions
     ELSE IF checkAdminRole(headerToken(h)) # 0
     THEN /\ res' = Sent("question", FALSE, checkAdminRole(headerToken(h)), <<"Forbidden">>, NoToken)
          /\ questions' = questions
     ELSE IF question = Missing
     THEN /\ res' = Sent("question", FALSE, 500,
                         <<"An error occurred while creating the question">>, NoToken)
          /\ questions' = questions
     ELSE /\ Cardinality(questions) < MaxQuestions
          /\ questions' = questions \cup
                            {[id |-> Cardinality(questions) + 1, question |-> question]}
          /\ res' = Sent("question", FALSE, 201, <<>>, NoToken)
  /\ UNCHANGED <<now, ticks, users, nextId, nextSalt, req, held, observing, failStreak, lastFail,
                 checked>>

(* ------------------------------------------------------------------ *)
(* validatePassword called alone                                       *)
(* ------------------------------------------------------------------ *)
\* The histories given to it: none, one hash, two hashes
Histories ==
  {<<>>, <<hash(PwA, 1)>>, <<hash(PwB, 1)>>, <<hash(PwWeak, 1)>>,
   <<hash(PwB, 1), hash(PwA, 2)>>}

\* One call of validatePassword
Validate(password, username, previousPasswords) ==
  /\ checked' = [password |-> password, username |-> username,
                 previousPasswords |-> previousPasswords,
                 errors |-> validatePassword(password, username, previousPasswords)]
  /\ UNCHANGED <<now, ticks, users, nextId, nextSalt, req, res, held, observing, failStreak,
                 lastFail, questions>>

(* ------------------------------------------------------------------ *)
(* Specification                                                       *)
(* ------------------------------------------------------------------ *)
Bodies == Passwords \cup {Missing}

Next ==
  \/ Tick(Hour)
  \/ \E r \in Reqs, u \in Usernames \cup {Missing}, p \in Bodies : RegisterFind(r, u, p)
  \/ \E r \in Reqs : RegisterSave(r)
  \/ \E r \in Reqs, u \in Usernames \cup {Missing}, p \in Bodies : LoginFind(r, u, p)
  \/ \E r \in Reqs : LoginVerify(r)
  \/ \E h \in Headers, u \in Usernames : GetUser(h, u)
  \/ \E r \in Reqs, h \in Headers, u \in Usernames, p \in Bodies : PatchFind(r, h, u, p)
  \/ \E r \in Reqs : PatchSave(r)

Spec == Init /\ [][Next]_vars

\* Registrations and logins alone, with the logins' outcomes counted
InitLogins == Start /\ observing = TRUE

NextLogins ==
  \/ \E d \in {HalfMinute, Hour} : Tick(d)
  \/ \E r \in Reqs, u \in Usernames \cup {Missing}, p \in Bodies : RegisterFind(r, u, p)
  \/ \E r \in Reqs : RegisterSave(r)
  \/ \E r \in Reqs, u \in Usernames \cup {Missing}, p \in Bodies : LoginFind(r, u, p)
  \/ \E r \in Reqs : LoginVerify(r)

SpecLogins == InitLogins /\ [][NextLogins]_vars

\* Registrations and logins, for the tokens the program issues, and the
\* privileged route
NextAdmin ==
  \/ Tick(Hour)
  \/ \E r \in Reqs, u \in Usernames, p \in Passwords : RegisterFind(r, u, p)
  \/ \E r \in Reqs : RegisterSave(r)
  \/ \E r \in Reqs, u \in Usernames, p \in Passwords : LoginFind(r, u, p)
  \/ \E r \in Reqs : LoginVerify(r)
  \/ \E h \in AdminHeaders, q \in Questions : PostQuestion(h, q)

SpecAdmin == Init /\ [][NextAdmin]_vars

\* validatePassword on every candidate, identity and history
NextPolicy ==
  \E p \in Candidates, u \in {Bob, Al}, h \in Histories : Validate(p, u, h)

SpecPolicy == Init /\ [][NextPolicy]_vars

\* Two identities, their requests handled one at a time: registration,
\* login and password change
Owners == {Bob, Al}
NextOwner ==
  \/ \E u \in Owners, p \in {PwA, PwB} : RegisterFind(1, u, p)
  \/ RegisterSave(1)
  \/ \E u \in Owners, p \in {PwA, PwB} : LoginFind(1, u, p)
  \/ LoginVerify(1)
  \/ \E h \in Headers, u \in Owners, p \in {PwA, PwB} : PatchFind(1, h, u, p)
  \/ PatchSave(1)

SpecOwner == Init /\ [][NextOwner]_vars

(* ------------------------------------------------------------------ *)
(* Vocabulary of the claims                                            *)
(* ------------------------------------------------------------------ *)
\* The stored Account Records of an identity
recordsOf(coll, u) == {d \in coll : d.username = u}

\* Locked: three or more failures counted, the last less than a minute ago
IsLocked(doc, t) ==
  doc.failedLoginAttempts >= 3 /\ doc.lastFailedLogin # Null /\ t - doc.lastFailedLogin < 60000

\* The password is the one the digest was made from
Matches(password, digest) == digest.plain = password

\* The header carries a bearer token; the token is signed by the service and
\* not yet expired
CarriesToken(h) == h.present /\ h.parts >= 2 /\ h.token # NoToken
Valid(token, t) == token.sig = "ok" /\ t \div 1000 < token.exp

(* ------------------------------------------------------------------ *)
(* C1                                                                  *)
(* ------------------------------------------------------------------ *)
\* C1: a login (with a password, right or wrong) that arrives less than 60
\* seconds after the third consecutive failed login of its identity is
\* answered 403.
C1_RejectedAfterThreeFailures ==
  (res.route = "login" /\ res.armed /\ res.status # 400) => res.status = 403

(* ------------------------------------------------------------------ *)
(* C2                                                                  *)
(* ------------------------------------------------------------------ *)
\* C2: a login for an existing, non-Locked identity with a password that does
\* not match raises the stored failedLoginAttempts by one and sets the stored
\* lastFailedLogin to the time of the attempt.
C2_FailureCounted ==
  [][\A r \in Reqs, u \in Usernames, p \in Passwords :
       LET doc == findOne(users, u) IN
       (LoginFind(r, u, p) /\ doc # NoUser /\ ~Matches(p, doc.password) /\ ~IsLocked(doc, now))
         => \A d \in recordsOf(users', u) :
              /\ d.failedLoginAttempts = doc.failedLoginAttempts + 1
              /\ d.lastFailedLogin = now]_vars

(* ------------------------------------------------------------------ *)
(* C4                                                                  *)
(* ------------------------------------------------------------------ *)
\* C4: when a login returns a token, the stored record of its identity has
\* failedLoginAttempts = 0 and lastFailedLogin = null right after the
\* request's save.
C4_TokenMeansReset ==
  [][\A r \in Reqs :
       (LoginVerify(r) /\ res'.token # NoToken)
         => \A d \in recordsOf(users', req[r].username) :
              d.failedLoginAttempts = 0 /\ d.lastFailedLogin = Null]_vars

\* A login has just returned a token for an identity whose record is stored
C4_Witness ==
  /\ res.route = "login" /\ res.status = 200 /\ res.token # NoToken
  /\ recordsOf(users, res.token.username) # {}

(* ------------------------------------------------------------------ *)
(* C5                                                                  *)
(* ------------------------------------------------------------------ *)
\* C5: every stored record has failedLoginAttempts = 0 exactly when its
\* lastFailedLogin is null, whatever requests ran and however they interleaved.
C5_CounterIffTimestamp ==
  \A d \in users : (d.failedLoginAttempts = 0) <=> (d.lastFailedLogin = Null)

\* A record that was registered, logged into and had its password changed,
\* with another request still in flight
C5_Witness ==
  /\ \E d \in users : d.historyPasswords # <<>>
  /\ held # NoToken
  /\ \E r \in Reqs : req[r].pc # "idle"

C7_ConflictAlways ==
  [][/\ \A d, e \in users' : d.username = e.username => d = e
     /\ \A r \in Reqs :
          (RegisterSave(r) /\ recordsOf(users, req[r].username) # {})
            => (res'.status = 400 /\ res'.error = <<"User already exists">> /\ users' = users)]_vars

\* C7 as amended: no two stored records share an identity, and a registration
\* for an identity that is already stored changes no record and is answered
\* 400: with "User already exists" when its existence check finds the record,
\* with "Error registering user" when its save is refused.
C7_DuplicateRefused ==
  [][/\ \A d, e \in users' : d.username = e.username => d = e
     /\ \A r \in Reqs, u \in Usernames, p \in Passwords :
          (RegisterFind(r, u, p) /\ recordsOf(users, u) # {})
            => (res'.status = 400 /\ res'.error = <<"User already exists">>
                /\ users' = users /\ req' = req)
     /\ \A r \in Reqs :
          (RegisterSave(r) /\ recordsOf(users, req[r].username) # {})
            => (res'.status = 400 /\ res'.error = <<"Error registering user">>
                /\ users' = users)]_vars

\* The save of an interleaved registration was refused, the record stored
C7_Witness ==
  /\ res.route = "register" /\ res.error = <<"Error registering user">>
  /\ Cardinality(recordsOf(users, Bob)) = 1

(* ------------------------------------------------------------------ *)
(* C8                                                                  *)
(* ------------------------------------------------------------------ *)
\* C8: a password change that succeeds leaves the record with the hash of the
\* new password and with the history it had before the change followed by the
\* hash that was active before the change; one rejected for the policy leaves
\* the hash and the history as they were.
C8_RotateAppendsPrevious ==
  [][/\ \A r \in Reqs :
          PatchSave(r) =>
            \A old \in recordsOf(users, req[r].username) :
              \A new \in recordsOf(users', req[r].username) :
                /\ Matches(req[r].password, new.password)
                /\ new.historyPasswords = Append(old.historyPasswords, old.password)
     /\ \A r \in Reqs, h \in Headers, u \in Usernames, p \in Passwords :
          (PatchFind(r, h, u, p) /\ res'.status = 400 /\ res' # res) => users' = users]_vars

(* ------------------------------------------------------------------ *)
(* C9                                                                  *)
(* ------------------------------------------------------------------ *)
\* C9: a password change whose candidate matches a hash in the account's
\* history is rejected (400, naming the reuse) and changes no record, also
\* when the candidate satisfies every other rule.
C9_ReuseRejected ==
  [][\A u \in Usernames, p \in Passwords :
       LET doc == findOne(users, u) IN
       (/\ doc # NoUser
        /\ \E i \in 1..Len(doc.historyPasswords) : Matches(p, doc.historyPasswords[i]))
         => \A h \in Headers :
              (CarriesToken(h) /\ Valid(h.token, now))
                => \A r \in Reqs :
                     PatchFind(r, h, u, p)
                       => /\ res'.status = 400
                          /\ \E i \in 1..Len(res'.error) : res'.error[i] = ErrReused
                          /\ users' = users
                          /\ req' = req]_vars

\* A change to a conforming password was rejected for reuse alone, the
\* candidate matching the oldest of two hashes in the history
C9_Witness ==
  /\ res.route = "patch" /\ res.status = 400 /\ res.error = <<ErrReused>>
  /\ \E d \in users :
       /\ Len(d.historyPasswords) >= 2
       /\ d.historyPasswords[1].plain # d.historyPasswords[Len(d.historyPasswords)].plain

(* ------------------------------------------------------------------ *)
(* C10                                                                 *)
(* ------------------------------------------------------------------ *)
\* C10: a request to a guarded route without a bearer token is answered 401,
\* one whose token has a bad signature or has expired 403; in both cases the
\* handler does not run: no record changes and no handler is left in flight.
C10_GuardRejects ==
  [][\A h \in Headers :
       LET unauthorized == ~CarriesToken(h)
           forbidden == CarriesToken(h) /\ ~Valid(h.token, now)
           rejected == res'.status = (IF unauthorized THEN 401 ELSE 403)
       IN  (unauthorized \/ forbidden)
             => /\ \A r \in Reqs, u \in Usernames, p \in Bodies :
                     PatchFind(r, h, u, p) => (rejected /\ users' = users /\ req' = req)
                /\ \A u \in Usernames :
                     GetUser(h, u) => (rejected /\ users' = users /\ req' = req)]_vars

\* A password change was answered 403 while the only token the service had
\* signed was expired
C10_Witness ==
  /\ res.route = "patch" /\ res.status = 403
  /\ held # NoToken /\ ~Valid(held, now)
  /\ users # {}

(* ------------------------------------------------------------------ *)
(* C11                                                                 *)
(* ------------------------------------------------------------------ *)
\* The role a token claims, "none" when it claims none
RoleOf(token) == IF "role" \in DOMAIN token THEN token.role ELSE "none"

\* C11: the privileged operation (storing a question) runs only for a valid,
\* unexpired token whose role claim is admin; a valid, unexpired token with
\* another role or with no role claim is answered 403 and stores nothing.
C11_AdminOnly ==
  [][\A h \in AdminHeaders, q \in Questions :
       PostQuestion(h, q) =>
         /\ questions' # questions
              => (CarriesToken(h) /\ Valid(h.token, now) /\ RoleOf(h.token) = "admin")
         /\ (CarriesToken(h) /\ Valid(h.token, now) /\ RoleOf(h.token) # "admin")
              => (res'.status = 403 /\ questions' = questions)]_vars

\* An admin has stored a question, and the token of a login, valid and with
\* no role claim, was then answered Forbidden
C11_Witness ==
  /\ questions # {}
  /\ res.route = "question" /\ res.status = 403 /\ res.error = <<"Forbidden">>
  /\ held # NoToken /\ Valid(held, now)

(* ------------------------------------------------------------------ *)
(* C12                                                                 *)
(* ------------------------------------------------------------------ *)
\* The seven rules, each stated on the characters of the candidate, and the
\* violation that reports it
Breaks(k, password, username, history) ==
  LET pw == chars(password)
      id == chars(username)
  IN CASE k = 1 -> Len(pw) \notin 8..12
       [] k = 2 -> \A i \in 1..Len(pw) : pw[i] \notin Digits
       [] k = 3 -> \A i \in 1..Len(pw) : pw[i] \notin Upper
       [] k = 4 -> \A i \in 1..Len(pw) : pw[i] \notin Lower
       [] k = 5 -> \A i \in 1..Len(pw) : pw[i] \notin Specials
       [] k = 6 -> \E i \in 0..(Len(pw) - Len(id)) :
                     \A j \in 1..Len(id) : LowerChar(pw[i + j]) = LowerChar(id[j])
       [] k = 7 -> \E i \in 1..Len(history) : Matches(password, history[i])
Violation(k) ==
  <<ErrLength, ErrNumber, ErrUpper, ErrLower, ErrSpecial, ErrUsername, ErrReused>>[k]
Count(msg, errors) == Cardinality({i \in 1..Len(errors) : errors[i] = msg})

\* C12: validatePassword returns exactly one violation for each of the seven
\* rules the candidate breaks and nothing else, so an empty list exactly
\* when all seven hold.
C12_EveryBrokenRuleOnce ==
  checked # NoCall =>
    LET broken == {k \in 1..7 : Breaks(k, checked.password, checked.username,
                                       checked.previousPasswords)}
    IN /\ \A k \in 1..7 :
            Count(Violation(k), checked.errors) = IF k \in broken THEN 1 ELSE 0
       /\ Len(checked.errors) = Cardinality(broken)
       /\ (checked.errors = <<>>) <=> (broken = {})

\* A call whose candidate breaks four rules, the first among them, and got
\* four violations
C12_Witness ==
  /\ checked # NoCall
  /\ Len(checked.errors) = 4
  /\ checked.errors[1] = ErrLength

(* ------------------------------------------------------------------ *)
(* C13                                                                 *)
(* ------------------------------------------------------------------ *)
\* C13: two logins of one identity with a wrong password, with no login of
\* it answered with a token before or between them, both read the counter n
\* = 0 of the new record and leave the stored counter raised: by one when
\* both write n + 1 (the interleaving of the claim), by two otherwise.
C13_TwoFailuresRaiseCounter ==
  \A u \in Usernames :
    failStreak[u] = 2 =>
      \A d \in recordsOf(users, u) : d.failedLoginAttempts \in {1, 2}

(* ------------------------------------------------------------------ *)
(* C14                                                                 *)
(* ------------------------------------------------------------------ *)
\* C14: a login with a wrong password that arrives 60 seconds or more after
\* the third consecutive failure of its identity is answered 401 and leaves
\* the stored counter at 1 and the stored timestamp at the time of the attempt.
C14_ExpiredLockCountsFromOne ==
  [][\A r \in Reqs, u \in Usernames, p \in Passwords :
       LET doc == findOne(users, u) IN
       (/\ LoginFind(r, u, p)
        /\ doc # NoUser /\ ~Matches(p, doc.password)
        /\ failStreak[u] >= 3 /\ lastFail[u] # Null /\ now - lastFail[u] >= 60000)
         => /\ res'.status = 401
            /\ \A d \in recordsOf(users', u) :
                 d.failedLoginAttempts = 1 /\ d.lastFailedLogin = now]_vars

(* ------------------------------------------------------------------ *)
(* C15                                                                 *)
(* ------------------------------------------------------------------ *)
\* The failure counter and timestamp of every stored record are the same
\* after the step as before
CountersKept ==
  /\ \A d \in users : \E e \in users' :
       /\ e.id = d.id
       /\ e.failedLoginAttempts = d.failedLoginAttempts
       /\ e.lastFailedLogin = d.lastFailedLogin
  /\ \A e \in users' : \E d \in users : d.id = e.id

\* C15: a password change, accepted or rejected, leaves failedLoginAttempts
\* and lastFailedLogin of the account (of every account) as they were: a
\* step after which they differ is no step of a password change.
C15_ChangeKeepsCounters ==
  [][~CountersKept =>
       /\ \A r \in Reqs : ~PatchSave(r)
       /\ \A r \in Reqs, h \in Headers, u \in Usernames, p \in Bodies :
            ~PatchFind(r, h, u, p)]_vars

\* A password change was accepted and saved
C15_Witness ==
  /\ res.route = "patch" /\ res.status = 200
  /\ \E d \in users : Len(d.historyPasswords) = 1 /\ d.password.salt > 1

(* ------------------------------------------------------------------ *)
(* C16                                                                 *)
(* ------------------------------------------------------------------ *)
\* C16: the save of a password change modifies only the record of the
\* identity that the presented token names.  With one request at a time the
\* token presented is the one held: no other token has a good signature, and
\* no login replaces it while the change is in flight.
C16_OnlyOwnRecord ==
  [][PatchSave(1) =>
       \A d \in users : d \notin users' => d.username = held.username]_vars

(* ------------------------------------------------------------------ *)
(* C17                                                                 *)
(* ------------------------------------------------------------------ *)
\* C17: no password becomes active twice: the password that is active is
\* not among the earlier passwords of its account.
C17_NoPasswordActiveTwice ==
  \A d \in users :
    \A i \in 1..Len(d.historyPasswords) : ~Matches(d.password.plain, d.historyPasswords[i])

(* ------------------------------------------------------------------ *)
(* C19                                                                 *)
(* ------------------------------------------------------------------ *)
\* C19: the stored failedLoginAttempts of every record is an integer from 0
\* to 3, whatever requests ran and however they interleaved.
C19_CounterInRange ==
  \A d \in users : d.failedLoginAttempts \in 0..3

\* Two logins of a stored identity are in flight together, after an earlier
\* login of it was answered with a token
C19_Witness ==
  /\ \A r \in Reqs : req[r].route = "login" /\ req[r].pc = "login_verify"
  /\ held # NoToken
  /\ users # {}

====
